---- MODULE Spec2Model ----
(***************************************************************************)
(* Item logistics of Emergence: structures that release items onto the     *)
(* litter of the cell they face, structures that absorb litter from their  *)
(* own cell, and the signals both advertise                                *)
(* (emergence_lib/src/structures/logistic_buildings.rs).                   *)
(*                                                                         *)
(* Inventory, Litter, ItemManifest and MapGeometry are not part of the     *)
(* excerpt; they are modelled from the specification's data model.         *)
(***************************************************************************)
EXTENDS Integers, Sequences, FiniteSets, TLC

\* Largest slot capacity (and so the largest quantity a slot starts with).
MaxCap == 2

\* The most of one item a Litter pool with a ceiling holds.
MaxLitter == 2

\* const LOGISTIC_SIGNAL_STRENGTH: f32 = 10.;
LOGISTIC_SIGNAL_STRENGTH == 10

Items == {"A", "B"}
\* The order in which a collection keyed by item is iterated.
ItemOrder == <<"A", "B">>
NoItem == "none"
NoTag == "notag"

\* ItemManifest: which items carry a tag.
TagMembers(tag) == IF tag = "T" THEN {"B"} ELSE {}

\* ItemKind
Single(item) == <<"Single", item>>
Tag(tag) == <<"Tag", tag>>

\* SignalType
Pull(kind) == <<"Pull", kind>>
Push(kind) == <<"Push", kind>>

StructIds == {1, 2, 3, 4}
\* Grid cells in a row; a structure with id s stands on cell s.
Cells == 0 .. 4
\* The cells every map has a terrain entity for; the map may or may not reach
\* the last cell of the row.
InnerCells == 0 .. 3
Directions == {-1, 1}
Systems == {"release", "absorb", "signals"}

Min(a, b) == IF a < b THEN a ELSE b

--------------------------------------------------------------------------
(* Slots and inventories (specification 3, Data model).                    *)

NewSlot(filter, cap, item, count) ==
    [filter |-> filter, cap |-> cap, item |-> item, count |-> count]

ItemCount(item, count) == [item |-> item, count |-> count]

\* The acceptance filter of a slot: exactly one item, or anything with a tag.
FilterAccepts(filter, item) ==
    IF filter[1] = "Single" THEN item = filter[2]
    ELSE item \in TagMembers(filter[2])

\* ItemSlot::is_full
SlotIsFull(slot) == slot.count = slot.cap

\* ItemSlot::item_id
SlotItemId(slot) == slot.item

\* ItemSlot::item_count
SlotItemCount(slot) == ItemCount(slot.item, slot.count)

\* A slot takes an item if its filter accepts it and it holds no other item.
SlotAccepts(slot, item) ==
    /\ FilterAccepts(slot.filter, item)
    /\ (slot.count = 0 \/ slot.item = item)

RECURSIVE RemainingSpaceFrom(_, _, _)
RemainingSpaceFrom(slots, item, i) ==
    IF i > Len(slots) THEN 0
    ELSE (IF SlotAccepts(slots[i], item) THEN slots[i].cap - slots[i].count ELSE 0)
         + RemainingSpaceFrom(slots, item, i + 1)

RemainingSpace(slots, item) == RemainingSpaceFrom(slots, item, 1)

RECURSIVE HeldFrom(_, _, _)
HeldFrom(slots, item, i) ==
    IF i > Len(slots) THEN 0
    ELSE (IF slots[i].item = item THEN slots[i].count ELSE 0)
         + HeldFrom(slots, item, i + 1)

\* Quantity of an item held over all slots.
Held(slots, item) == HeldFrom(slots, item, 1)

\* Put n units into the accepting slots, first slot first.
RECURSIVE FillSlots(_, _, _, _)
FillSlots(slots, item, n, i) ==
    IF i > Len(slots) \/ n = 0 THEN slots
    ELSE IF SlotAccepts(slots[i], item)
         THEN LET put == Min(slots[i].cap - slots[i].count, n)
              IN  FillSlots([slots EXCEPT ![i].count = @ + put,
                                          ![i].item = IF put > 0 THEN item ELSE @],
                            item, n - put, i + 1)
         ELSE FillSlots(slots, item, n, i + 1)

\* Take n units out of the slots holding the item, last slot first.
RECURSIVE DrainSlots(_, _, _, _)
DrainSlots(slots, item, n, i) ==
    IF i < 1 \/ n = 0 THEN slots
    ELSE IF slots[i].item = item
         THEN LET take == Min(slots[i].count, n)
              IN  DrainSlots([slots EXCEPT ![i].count = @ - take], item, n - take, i - 1)
         ELSE DrainSlots(slots, item, n, i - 1)

\* Inventory::add_item_all_or_nothing
InventoryAddItemAllOrNothing(slots, ic) ==
    IF ic.count > RemainingSpace(slots, ic.item)
    THEN [ok |-> FALSE, slots |-> slots]
    ELSE [ok |-> TRUE, slots |-> FillSlots(slots, ic.item, ic.count, 1)]

\* Exact-count removal from an inventory.
InventoryRemoveItem(slots, ic) ==
    IF ic.count > Held(slots, ic.item)
    THEN [ok |-> FALSE, slots |-> slots]
    ELSE [ok |-> TRUE, slots |-> DrainSlots(slots, ic.item, ic.count, Len(slots))]

\* InputInventory::consume_items with RecipeInput::Exact(vec![item_count])
consume_items(inv, ic) ==
    LET r == InventoryRemoveItem(inv.slots, ic)
    IN  [ok |-> r.ok, inv |-> [inv EXCEPT !.slots = r.slots]]

\* Inventory::clear_empty_slots: forget which item an emptied slot last held
\* (a slot for exactly one item keeps naming that item); no capacity changes.
clear_empty_slots(slots) ==
    [i \in DOMAIN slots |->
        IF slots[i].count = 0 /\ slots[i].filter[1] = "Tag"
        THEN [slots[i] EXCEPT !.item = NoItem]
        ELSE slots[i]]

\* Inventory::is_full
is_full(slots) == \A i \in DOMAIN slots : SlotIsFull(slots[i])

--------------------------------------------------------------------------
(* Litter: per cell, a quantity per item with no ceiling.                  *)

EmptyPool == [item \in Items |-> 0]

\* What bounds a Litter pool: nothing, or a ceiling on the quantity of each item.
NoCeiling == <<>>
Ceiling(n) == <<n>>

\* Litter contents add_item_all_or_nothing: the ItemCount is taken whole if
\* the pool has no ceiling or stays within it, and refused whole otherwise.
LitterAddItemAllOrNothing(pool, ic, ceiling) ==
    IF ic.count = 0 THEN [ok |-> TRUE, pool |-> pool]
    ELSE IF ceiling # NoCeiling /\ pool[ic.item] + ic.count > ceiling[1]
    THEN [ok |-> FALSE, pool |-> pool]
    ELSE [ok |-> TRUE, pool |-> [pool EXCEPT ![ic.item] = @ + ic.count]]

\* Litter contents try_remove_item
LitterTryRemoveItem(pool, ic) ==
    IF ic.count = 0 THEN [ok |-> TRUE, pool |-> pool]
    ELSE IF pool[ic.item] < ic.count THEN [ok |-> FALSE, pool |-> pool]
    ELSE [ok |-> TRUE, pool |-> [pool EXCEPT ![ic.item] = @ - ic.count]]

RECURSIVE LitterIterFrom(_, _)
LitterIterFrom(pool, i) ==
    IF i > Len(ItemOrder) THEN <<>>
    ELSE (IF pool[ItemOrder[i]] > 0
          THEN <<ItemCount(ItemOrder[i], pool[ItemOrder[i]])>>
          ELSE <<>>) \o LitterIterFrom(pool, i + 1)

\* litter.contents.clone().iter(): the ItemCounts present, one per item.
LitterIter(pool) == LitterIterFrom(pool, 1)

--------------------------------------------------------------------------
(* Geometry.                                                               *)

\* VoxelPos::neighbor
Neighbor(pos, direction) == pos + direction

--------------------------------------------------------------------------
VARIABLES
    terrain,    \* MapGeometry: per cell with a terrain entity, the components of
                \* that entity among Litter and WaterDepth
    structure,  \* per structure: kind, pos, facing, height (fixed at construction)
    waterDepth, \* per cell: surface water depth (fixed), read where the terrain
                \* entity has a WaterDepth
    input,      \* per releaser: its InputInventory
    output,     \* per absorber: the slots of its OutputInventory
    litter,     \* per cell: its Litter contents
    litterCeiling, \* what bounds every Litter pool (fixed)
    emitter,    \* per structure: Emitter.signals
    order,      \* the systems that have run in the current tick, in order
    crashed,    \* a system panicked: the app is gone
    attempts,   \* history: the transfers attempted by the last system run
    turns,      \* history: one record per structure turn of the last system run
    reEmitted,  \* history: per structure, its emitter was last rebuilt from the
                \* inventory it had been built from before
    lastEmit,   \* history: per structure, <<the inventory its emitter was built from>>
    total0,     \* history: per item, the total quantity at construction
    processed   \* history: per system, the structures it has visited in this tick

logisticsVars == <<terrain, structure, waterDepth, litterCeiling, input, output, litter,
                   emitter, order,
                   crashed, attempts, turns, reEmitted, lastEmit, total0, processed>>

VARIABLES
    manifest,   \* StructureManifest: per structure type, its StructureData
    lookup      \* the last manifest lookup made: function, id asked, what came of it

manifestVars == <<manifest, lookup>>

VARIABLES
    structure_entities, \* what structure_query yields: (TilePos, OrganismType), in order
    zoning_actions,     \* ActionState<ZoningAction>: the actions just pressed this frame
    cursor_pos,         \* CursorTilePos::maybe_tile_pos()
    selected_structure, \* SelectedStructure::maybe_structure
    selected_before,    \* history: the selection when the frame began
    frame_phase         \* "input": the frame's input is read next; "select": the system runs next

zoningVars == <<structure_entities, zoning_actions, cursor_pos, selected_structure,
                selected_before, frame_phase>>

vars == <<logisticsVars, manifestVars, zoningVars>>

NoInventory == "no inventory"

\* MapGeometry::get_terrain(..) is Some
HasTerrain(cell) == cell \in DOMAIN terrain

\* litter_query.get_mut(litter_entity) is Ok
HasLitter(cell) == HasTerrain(cell) /\ "Litter" \in terrain[cell]

\* water_depth_query.get(terrain_entity) is Ok
HasWaterDepth(cell) == HasTerrain(cell) /\ "WaterDepth" \in terrain[cell]

\* Mutation of UnwrapPanics: a missing terrain entity is passed over.
UnwrapPanicsNever(cell) == FALSE

\* map_geometry.get_terrain(voxel_pos.hex).unwrap() and
\* litter_query.get_mut(litter_entity).unwrap(): None or Err panics.
UnwrapPanics(cell) == ~HasTerrain(cell) \/ ~HasLitter(cell)

\* map_geometry.get_terrain(voxel_pos.hex).unwrap() and
\* water_depth_query.get(terrain_entity).unwrap(), after the ground pass.
WaterDepthUnwrapPanics(cell) == ~HasTerrain(cell) \/ ~HasWaterDepth(cell)

\* What Query<.., With<ReleasesItems>> and Query<.., With<AbsorbsItems>> yield.
Releasers == {s \in StructIds : "ReleasesItems" \in structure[s].markers}
Absorbers == {s \in StructIds : "AbsorbsItems" \in structure[s].markers}

--------------------------------------------------------------------------
(* release_items                                                           *)

Attempt(sys, s, pass, ic, ok, srcBefore, srcAfter, dstBefore, dstAfter) ==
    [sys |-> sys, s |-> s, pass |-> pass, ic |-> ic, ok |-> ok,
     srcBefore |-> srcBefore, srcAfter |-> srcAfter,
     dstBefore |-> dstBefore, dstAfter |-> dstAfter]

\* Mutation of ReleaseTarget: the step is taken against the facing direction.
ReleaseTargetBehind(s) == Neighbor(structure[s].pos, 0 - structure[s].facing)

\* Mutation of ReleaseTarget: two steps are taken along the facing direction.
ReleaseTargetFar(s) ==
    Neighbor(Neighbor(structure[s].pos, structure[s].facing), structure[s].facing)

\* let voxel_pos = structure_pos.neighbor(structure_facing.direction);
ReleaseTarget(s) == Neighbor(structure[s].pos, structure[s].facing)

\* Mutation of ReleaseOne: the accepted ItemCount is never consumed from the inventory.
ReleaseOneKeepsItems(st, slot, s) ==
    LET ic == SlotItemCount(slot)
        added == LitterAddItemAllOrNothing(st.pool, ic, litterCeiling)
        next == IF added.ok THEN [st EXCEPT !.pool = added.pool] ELSE st
    IN  [next EXCEPT !.attempts =
            Append(@, Attempt("release", s, "release", ic, added.ok,
                              st.inv, next.inv, st.pool, next.pool))]

\* Mutation of ReleaseOne: twice the accepted quantity is consumed.
ReleaseOneConsumesDouble(st, slot, s) ==
    LET ic == SlotItemCount(slot)
        added == LitterAddItemAllOrNothing(st.pool, ic, litterCeiling)
        consumed == consume_items(st.inv, ItemCount(ic.item, ic.count + ic.count))
        next == IF added.ok
                THEN [st EXCEPT !.inv = consumed.inv, !.pool = added.pool,
                                !.panicked = ~consumed.ok]
                ELSE st
    IN  [next EXCEPT !.attempts =
            Append(@, Attempt("release", s, "release", ic, added.ok,
                              st.inv, next.inv, st.pool, next.pool))]

\* Mutation of ReleaseOne: the ItemCount is consumed from the inventory
\* whether or not the litter took it.
ReleaseOneConsumesAnyway(st, slot, s) ==
    LET ic == SlotItemCount(slot)
        added == LitterAddItemAllOrNothing(st.pool, ic, litterCeiling)
        consumed == consume_items(st.inv, ic)
        next == [st EXCEPT !.inv = consumed.inv, !.pool = added.pool,
                           !.panicked = ~consumed.ok]
    IN  [next EXCEPT !.attempts =
            Append(@, Attempt("release", s, "release", ic, added.ok,
                              st.inv, next.inv, st.pool, next.pool))]

\* One slot of the cloned inventory: st = [inv, pool, panicked, attempts].
\* The litter takes the slot's ItemCount or not; if it does, the same ItemCount
\* is consumed from the inventory, and a failed consumption panics (unwrap).
ReleaseOne(st, slot, s) ==
    LET ic == SlotItemCount(slot)
        added == LitterAddItemAllOrNothing(st.pool, ic, litterCeiling)
        consumed == consume_items(st.inv, ic)
        next == IF added.ok
                THEN [st EXCEPT !.inv = consumed.inv, !.pool = added.pool,
                                !.panicked = ~consumed.ok]
                ELSE st
    IN  [next EXCEPT !.attempts =
            Append(@, Attempt("release", s, "release", ic, added.ok,
                              st.inv, next.inv, st.pool, next.pool))]

\* for item_slot in cloned_inventory.iter()
RECURSIVE ReleaseSlots(_, _, _, _)
ReleaseSlots(st, cloned, i, s) ==
    IF i > Len(cloned) \/ st.panicked THEN st
    ELSE ReleaseSlots(ReleaseOne(st, cloned[i], s), cloned, i + 1, s)

\* The record of one structure's turn: what it found, what each pass saw, what it left.
TurnRecord(sys, s, cell, skip, pan, inv0, pool0, gSnap, poolG, fRan, fSnap, inv1, pool1) ==
    [sys |-> sys, s |-> s, cell |-> cell, skipped |-> skip, panicked |-> pan,
     invBefore |-> inv0, poolBefore |-> pool0, groundSnap |-> gSnap,
     poolAfterGround |-> poolG, floatRan |-> fRan,
     floatSnap |-> fSnap, invAfter |-> inv1, poolAfter |-> pool1]

\* One releaser's turn (the body of the loop over structure_query).
\* w = [input, output, litter, crashed, attempts, turns]
ReleaseTurn(w, s) ==
    LET cell == ReleaseTarget(s)
        inv == w.input[s]
    IN  IF UnwrapPanics(cell)
        THEN [w EXCEPT !.crashed = TRUE,
                       !.turns = Append(@, TurnRecord("release", s, cell, FALSE, TRUE,
                                     inv, EmptyPool, <<>>, EmptyPool, FALSE, <<>>,
                                     inv, EmptyPool))]
        ELSE LET pool == w.litter[cell]
                 r == ReleaseSlots([inv |-> inv, pool |-> pool, panicked |-> FALSE,
                                    attempts |-> w.attempts], inv.slots, 1, s)
             IN  [w EXCEPT !.input[s] = r.inv,
                           !.litter[cell] = r.pool,
                           !.crashed = r.panicked,
                           !.attempts = r.attempts,
                           !.turns = Append(@, TurnRecord("release", s, cell, FALSE,
                                         r.panicked, inv, pool, <<>>, pool, FALSE, <<>>,
                                         r.inv, r.pool))]

\* The structures a query yields, in iteration order (by entity id).
RECURSIVE QueryOrder(_)
QueryOrder(set) ==
    IF set = {} THEN <<>>
    ELSE LET s == CHOOSE x \in set : \A y \in set : x <= y
         IN  <<s>> \o QueryOrder(set \ {s})

\* Mutation of ReleaseAll: every turn starts from the litter as the system found it.
RECURSIVE ReleaseAllStale(_, _, _)
ReleaseAllStale(w, q, i) ==
    IF i > Len(q) \/ w.crashed THEN w
    ELSE ReleaseAllStale(ReleaseTurn([w EXCEPT !.litter = litter], q[i]), q, i + 1)

RECURSIVE ReleaseAll(_, _, _)
ReleaseAll(w, q, i) ==
    IF i > Len(q) \/ w.crashed THEN w
    ELSE ReleaseAll(ReleaseTurn(w, q[i]), q, i + 1)

World == [input |-> input, output |-> output, litter |-> litter,
          crashed |-> FALSE, attempts |-> <<>>, turns |-> <<>>]

RunRelease(w) == ReleaseAll(w, QueryOrder(Releasers), 1)

--------------------------------------------------------------------------
(* absorb_items                                                            *)

\* Mutation of AbsorbOne: the ItemCount is removed from the litter whether or
\* not the inventory took it.
AbsorbOneRemovesAnyway(st, ic, s, pass) ==
    LET added == InventoryAddItemAllOrNothing(st.slots, ic)
        removed == LitterTryRemoveItem(st.pool, ic)
        next == [st EXCEPT !.slots = added.slots, !.pool = removed.pool,
                           !.panicked = ~removed.ok]
    IN  [next EXCEPT !.attempts =
            Append(@, Attempt("absorb", s, pass, ic, added.ok,
                              st.pool, next.pool, st.slots, next.slots))]

\* Mutation of AbsorbOne: the ItemCount is put into the first slot without
\* asking whether it fits or is accepted.
AbsorbOneUnchecked(st, ic, s, pass) ==
    LET removed == LitterTryRemoveItem(st.pool, ic)
        next == [st EXCEPT !.slots[1].count = @ + ic.count,
                           !.slots[1].item = ic.item,
                           !.pool = removed.pool,
                           !.panicked = ~removed.ok]
    IN  [next EXCEPT !.attempts =
            Append(@, Attempt("absorb", s, pass, ic, TRUE,
                              st.pool, next.pool, st.slots, next.slots))]

\* Mutation of AbsorbOne: the litter tells floating items from ground items,
\* and the ground pass leaves the floating item "B" where it is.
AbsorbOneGroundLeavesFloaters(st, ic, s, pass) ==
    LET added == IF pass = "ground" /\ ic.item = "B"
                 THEN [ok |-> FALSE, slots |-> st.slots]
                 ELSE InventoryAddItemAllOrNothing(st.slots, ic)
        removed == LitterTryRemoveItem(st.pool, ic)
        next == IF added.ok
                THEN [st EXCEPT !.slots = added.slots, !.pool = removed.pool,
                                !.panicked = ~removed.ok]
                ELSE st
    IN  [next EXCEPT !.attempts =
            Append(@, Attempt("absorb", s, pass, ic, added.ok,
                              st.pool, next.pool, st.slots, next.slots))]

\* One ItemCount of a litter snapshot: st = [slots, pool, panicked, attempts].
\* The inventory takes the ItemCount or not; if it does, the same ItemCount is
\* removed from the litter, and a failed removal panics (unwrap).
AbsorbOne(st, ic, s, pass) ==
    LET added == InventoryAddItemAllOrNothing(st.slots, ic)
        removed == LitterTryRemoveItem(st.pool, ic)
        next == IF added.ok
                THEN [st EXCEPT !.slots = added.slots, !.pool = removed.pool,
                                !.panicked = ~removed.ok]
                ELSE st
    IN  [next EXCEPT !.attempts =
            Append(@, Attempt("absorb", s, pass, ic, added.ok,
                              st.pool, next.pool, st.slots, next.slots))]

\* for item_slot in on_ground.iter()  /  for item_slot in floating.iter()
RECURSIVE AbsorbPass(_, _, _, _, _)
AbsorbPass(st, snapshot, i, s, pass) ==
    IF i > Len(snapshot) \/ st.panicked THEN st
    ELSE AbsorbPass(AbsorbOne(st, snapshot[i], s, pass), snapshot, i + 1, s, pass)

\* Mutation of AbsorbShortCircuit: a full inventory is not skipped.
AbsorbShortCircuitNever(slots) == FALSE

\* if output_inventory.is_full() { continue; }
AbsorbShortCircuit(slots) == is_full(slots)

\* Mutations of TallEnough: the second pass always runs; or runs at equal height.
TallEnoughAlways(height, depth) == TRUE

TallEnoughOrEqual(height, depth) == height >= depth

\* Height::from(footprint.max_height()) > water_depth.surface_water_depth()
TallEnough(height, depth) == height > depth

\* One absorber's turn (the body of the loop over structure_query).
AbsorbTurn(w, s) ==
    LET cell == structure[s].pos
        slots == clear_empty_slots(w.output[s])
    IN  IF AbsorbShortCircuit(slots)
        THEN [w EXCEPT !.output[s] = slots,
                       !.turns = Append(@, TurnRecord("absorb", s, cell, TRUE, FALSE,
                                     w.output[s], w.litter[cell], <<>>, w.litter[cell],
                                     FALSE, <<>>, slots, w.litter[cell]))]
        ELSE IF UnwrapPanics(cell)
        THEN [w EXCEPT !.output[s] = slots,
                       !.crashed = TRUE,
                       !.turns = Append(@, TurnRecord("absorb", s, cell, FALSE, TRUE,
                                     w.output[s], EmptyPool, <<>>, EmptyPool,
                                     FALSE, <<>>, slots, EmptyPool))]
        ELSE LET pool == w.litter[cell]
                 on_ground == LitterIter(pool)
                 g == AbsorbPass([slots |-> slots, pool |-> pool, panicked |-> FALSE,
                                  attempts |-> w.attempts], on_ground, 1, s, "ground")
                 noDepth == ~g.panicked /\ WaterDepthUnwrapPanics(cell)
                 tall == ~g.panicked /\ ~noDepth
                         /\ TallEnough(structure[s].height, waterDepth[cell])
                 floating == IF tall THEN LitterIter(g.pool) ELSE <<>>
                 f == IF noDepth THEN [g EXCEPT !.panicked = TRUE]
                      ELSE IF tall THEN AbsorbPass(g, floating, 1, s, "floating")
                      ELSE g
             IN  [w EXCEPT !.output[s] = f.slots,
                           !.litter[cell] = f.pool,
                           !.crashed = f.panicked,
                           !.attempts = f.attempts,
                           !.turns = Append(@, TurnRecord("absorb", s, cell, FALSE,
                                         f.panicked, w.output[s], pool, on_ground,
                                         g.pool, tall, floating, f.slots, f.pool))]

RECURSIVE AbsorbAll(_, _, _)
AbsorbAll(w, q, i) ==
    IF i > Len(q) \/ w.crashed THEN w
    ELSE AbsorbAll(AbsorbTurn(w, q[i]), q, i + 1)

RunAbsorb(w) == AbsorbAll(w, QueryOrder(Absorbers), 1)

--------------------------------------------------------------------------
(* logistic_buildings_signals                                              *)

\* Mutation of ClearSignals: the old signals are kept.
ClearSignalsKeeps(signals) == signals

\* emitter.signals.clear()
ClearSignals(signals) == <<>>

\* Mutation of ShouldEmit: no slot is advertised.
ShouldEmitNever(slot) == FALSE

\* Mutation of ShouldEmit: full slots are advertised too.
ShouldEmitAlways(slot) == TRUE

\* if !item_slot.is_full()
ShouldEmit(slot) == ~SlotIsFull(slot)

\* Mutation of ReleaseItemKind: the slot's item is advertised whatever the matching.
ReleaseItemKindAlwaysSingle(inv, slot) == Single(SlotItemId(slot))

\* The ItemKind a releaser advertises for a slot.
ReleaseItemKind(inv, slot) ==
    IF inv.matching = "Exact" THEN Single(SlotItemId(slot)) ELSE Tag(inv.tag)

RECURSIVE PushPullSignals(_, _, _)
PushPullSignals(signals, inv, i) ==
    IF i > Len(inv.slots) THEN signals
    ELSE PushPullSignals(
            IF ShouldEmit(inv.slots[i])
            THEN Append(signals, <<Pull(ReleaseItemKind(inv, inv.slots[i])),
                                   LOGISTIC_SIGNAL_STRENGTH>>)
            ELSE signals,
            inv, i + 1)

RECURSIVE PushPushSignals(_, _, _)
PushPushSignals(signals, slots, i) ==
    IF i > Len(slots) THEN signals
    ELSE PushPushSignals(
            IF ShouldEmit(slots[i])
            THEN Append(signals, <<Push(Single(SlotItemId(slots[i]))),
                                   LOGISTIC_SIGNAL_STRENGTH>>)
            ELSE signals,
            slots, i + 1)

\* Mutation of release_query: the view is not narrowed by Without<AbsorbsItems>.
release_queryWithOnly == {s \in StructIds : s \in Releasers}

\* Query<(&mut Emitter, &mut InputInventory), (With<ReleasesItems>, Without<AbsorbsItems>)>
release_query == {s \in StructIds : s \in Releasers /\ s \notin Absorbers}

\* Query<(&mut Emitter, &mut OutputInventory), (With<AbsorbsItems>, Without<ReleasesItems>)>
absorb_query == {s \in StructIds : s \in Absorbers /\ s \notin Releasers}

\* The Emitter of one structure after the system has run.
EmitFor(s, signals) ==
    IF s \in release_query THEN PushPullSignals(ClearSignals(signals), input[s], 1)
    ELSE IF s \in absorb_query THEN PushPushSignals(ClearSignals(signals), output[s], 1)
    ELSE signals

\* The inventory logistic_buildings_signals reads for a structure: the
\* InputInventory of a structure release_query yields, the OutputInventory of
\* a structure absorb_query yields, none for a structure neither query yields
\* (one without marker, or one carrying both markers).
InventoryOf(s) ==
    IF s \in release_query THEN input[s]
    ELSE IF s \in absorb_query THEN output[s]
    ELSE NoInventory

--------------------------------------------------------------------------
(* Construction.                                                           *)

\* Footprint heights: level with the water surface, or above it.
Heights == {2, 3}

\* The capacities of the two slots of an inventory.
SlotCaps == <<MaxCap, 1>>

InputLayouts == {<<"A", "B">>}
OutputLayouts == {<<"A", "A">>, <<"A", "B">>}

ExactSlots(layout, counts) ==
    [i \in DOMAIN layout |-> NewSlot(Single(layout[i]), SlotCaps[i], layout[i], counts[i])]

TaggedSlots(counts) ==
    [i \in DOMAIN counts |->
        NewSlot(Tag("T"), SlotCaps[i], IF counts[i] > 0 THEN "B" ELSE NoItem,
                counts[i])]

CountPairs == {<<a, b>> : a \in 0 .. SlotCaps[1], b \in 0 .. SlotCaps[2]}

InputChoices ==
    {[matching |-> "Exact", tag |-> NoTag, slots |-> ExactSlots(l, c)] :
        l \in InputLayouts, c \in CountPairs}
    \cup {[matching |-> "Tagged", tag |-> "T", slots |-> TaggedSlots(c)] :
        c \in CountPairs}

OutputChoices == {ExactSlots(l, c) : l \in OutputLayouts, c \in CountPairs}

SmallInput ==
    [matching |-> "Exact", tag |-> NoTag,
     slots |-> <<NewSlot(Single("A"), MaxCap, "A", MaxCap)>>]

\* What lies on the absorber's cell at construction.
LitterChoices == {EmptyPool, [item \in Items |-> 1]}

RECURSIVE SumOver(_, _)
SumOver(f, set) ==
    IF set = {} THEN 0
    ELSE LET x == CHOOSE y \in set : TRUE IN f[x] + SumOver(f, set \ {x})

\* Total quantity of an item over all inventories and all litter.
TotalOf(inp, out, lit, item) ==
    SumOver([s \in StructIds |->
                (IF s \in Releasers THEN Held(inp[s].slots, item) ELSE 0)
                + (IF s \in Absorbers THEN Held(out[s], item) ELSE 0)], StructIds)
    + SumOver([c \in Cells |-> lit[c][item]], Cells)

\* The components a terrain entity is spawned with.
TerrainComponents == {"Litter", "WaterDepth"}

\* A terrain entity on each of the cells, with every component but, on the
\* absorber's cell, the lacking ones.
TerrainOver(cells, lacking) ==
    [c \in cells |-> IF c = 2 THEN TerrainComponents \ lacking ELSE TerrainComponents]

\* The maps a world can be built on: the whole row; the row without its last
\* cell, when the last releaser faces it; the row without the absorber's cell,
\* or with a terrain entity without Litter there, on which then no litter
\* lies; the row with a terrain entity without WaterDepth on that cell.
TerrainChoices(f3, p) ==
    {TerrainOver(Cells, {})}
        \cup (IF f3 = 1 THEN {TerrainOver(InnerCells, {})} ELSE {})
        \cup (IF p = EmptyPool
              THEN {TerrainOver(Cells \ {2}, {}), TerrainOver(Cells, {"Litter"})}
              ELSE {})
        \cup {TerrainOver(Cells, {"WaterDepth"})}

\* The marker components a structure of a kind is spawned with.
MarkersOf(kind) ==
    IF kind = "Releaser" THEN {"ReleasesItems"}
    ELSE IF kind = "Absorber" THEN {"AbsorbsItems"}
    ELSE {}

\* Structures 1 and 3 are releasers, 2 is an absorber, 4 stores items.
StructureKindOf(s) ==
    IF s = 2 THEN "Absorber" ELSE IF s = 4 THEN "Storage" ELSE "Releaser"

InitLogistics ==
    /\ \E f1 \in Directions, f3 \in Directions, h \in Heights, p \in LitterChoices :
          /\ terrain \in TerrainChoices(f3, p)
          /\ structure = [s \in StructIds |->
                [kind |-> StructureKindOf(s),
                 markers |-> MarkersOf(StructureKindOf(s)), pos |-> s,
                 facing |-> IF s = 1 THEN f1 ELSE IF s = 3 THEN f3 ELSE 1,
                 height |-> IF s = 2 THEN h ELSE 1]]
          /\ litter = [c \in Cells |-> IF c = 2 THEN p ELSE EmptyPool]
    /\ waterDepth = [c \in Cells |-> 2]
    /\ litterCeiling = NoCeiling
    /\ \E i1 \in InputChoices :
          input = [s \in StructIds |->
              IF s = 1 THEN i1 ELSE IF s = 3 THEN SmallInput ELSE NoInventory]
    /\ \E o2 \in OutputChoices :
          output = [s \in StructIds |-> IF s = 2 THEN o2 ELSE NoInventory]
    /\ emitter = [s \in StructIds |-> <<>>]
    /\ order = <<>>
    /\ crashed = FALSE
    /\ attempts = <<>>
    /\ turns = <<>>
    /\ lastEmit = [s \in StructIds |-> <<>>]
    /\ reEmitted = [s \in StructIds |-> FALSE]
    /\ total0 = [item \in Items |-> TotalOf(input, output, litter, item)]
    /\ processed = [sys \in Systems |-> {}]

--------------------------------------------------------------------------
(* The FixedUpdate schedule: the three systems are added without an order  *)
(* between them, so each runs once per tick, in an order the scheduler     *)
(* picks; their data accesses conflict, so no two overlap.                 *)

HasRun(sys) == \E i \in DOMAIN order : order[i] = sys

CanRun(sys) == ~crashed /\ ~HasRun(sys)

release_items ==
    /\ CanRun("release")
    /\ \E w \in {RunRelease(World)} :
           /\ input' = w.input
           /\ litter' = w.litter
           /\ crashed' = w.crashed
           /\ attempts' = w.attempts
           /\ turns' = w.turns
           /\ processed' = [processed EXCEPT !["release"] =
                               {w.turns[i].s : i \in DOMAIN w.turns}]
    /\ order' = Append(order, "release")
    /\ UNCHANGED <<terrain, structure, waterDepth, litterCeiling, output, emitter, reEmitted, lastEmit, total0>>
    /\ UNCHANGED <<manifestVars, zoningVars>>

absorb_items ==
    /\ CanRun("absorb")
    /\ \E w \in {RunAbsorb(World)} :
           /\ output' = w.output
           /\ litter' = w.litter
           /\ crashed' = w.crashed
           /\ attempts' = w.attempts
           /\ turns' = w.turns
           /\ processed' = [processed EXCEPT !["absorb"] =
                               {w.turns[i].s : i \in DOMAIN w.turns}]
    /\ order' = Append(order, "absorb")
    /\ UNCHANGED <<terrain, structure, waterDepth, litterCeiling, input, emitter, reEmitted, lastEmit, total0>>
    /\ UNCHANGED <<manifestVars, zoningVars>>

logistic_buildings_signals ==
    /\ CanRun("signals")
    /\ emitter' = [s \in StructIds |-> EmitFor(s, emitter[s])]
    /\ lastEmit' = [s \in StructIds |-> <<InventoryOf(s)>>]
    /\ reEmitted' = [s \in StructIds |-> lastEmit[s] = <<InventoryOf(s)>>]
    /\ order' = Append(order, "signals")
    /\ attempts' = <<>>
    /\ turns' = <<>>
    /\ processed' = [processed EXCEPT !["signals"] = release_query \cup absorb_query]
    /\ UNCHANGED <<terrain, structure, waterDepth, litterCeiling, input, output, litter, crashed, total0>>
    /\ UNCHANGED <<manifestVars, zoningVars>>

\* The schedule has run all its systems: the next fixed update begins.
EndTick ==
    /\ ~crashed
    /\ Len(order) = Cardinality(Systems)
    /\ order' = <<>>
    /\ processed' = [sys \in Systems |-> {}]
    /\ UNCHANGED <<terrain, structure, waterDepth, litterCeiling, input, output, litter, emitter, crashed,
                   attempts, turns, reEmitted, lastEmit, total0>>
    /\ UNCHANGED <<manifestVars, zoningVars>>

--------------------------------------------------------------------------
(* StructureManifest lookups (structures/structure_manifest.rs).           *)

\* Id<Structure>: the structure types of a manifest.
StructureTypes == {1, 2, 3}

\* ConstructionStrategy
Seedling(seedling_id) == <<"Seedling", seedling_id>>
Direct(data) == <<"Direct", data>>
Landmark == <<"Landmark">>

\* The ConstructionData and the Footprint stored for a structure type.
ConstructionDataOf(id) == <<"data", id>>
FootprintOf(id) == <<"footprint", id>>

\* Option
Some(x) == <<"Some", x>>
None == <<"None">>

\* A call that does not return: the recursion never reaches its end (the
\* stack runs out, or the tail call is compiled to a jump and loops).
Diverges == <<"diverges">>

\* A chain of calls longer than the number of structure types visits a type
\* twice, and so goes round for ever.
LongestChain == Cardinality(StructureTypes)

\* Mutation of construction_data: the strategy of the structure asked for decides.
RECURSIVE construction_dataOfAsked(_, _, _)
construction_dataOfAsked(m, structure_id, depth) ==
    LET initial_strategy == m[structure_id].construction_strategy
    IN  IF initial_strategy[1] = "Direct" THEN Some(initial_strategy[2]) ELSE None

\* StructureManifest::construction_data; depth counts the nested calls.
RECURSIVE construction_data(_, _, _)
construction_data(m, structure_id, depth) ==
    LET initial_strategy == m[structure_id].construction_strategy
    IN  IF depth > LongestChain THEN Diverges
        ELSE IF initial_strategy[1] = "Seedling"
             THEN construction_data(m, initial_strategy[2], depth + 1)
        ELSE IF initial_strategy[1] = "Direct" THEN Some(initial_strategy[2])
        ELSE None

\* Mutation of footprint: the footprint of the structure asked for is returned.
RECURSIVE footprintOfAsked(_, _, _)
footprintOfAsked(m, structure_id, depth) == m[structure_id].footprint

\* StructureManifest::footprint
RECURSIVE footprint(_, _, _)
footprint(m, structure_id, depth) ==
    LET strategy == m[structure_id].construction_strategy
    IN  IF depth > LongestChain THEN Diverges
        ELSE IF strategy[1] = "Seedling" THEN footprint(m, strategy[2], depth + 1)
        ELSE m[structure_id].footprint

StrategyChoices(id) ==
    {Seedling(x) : x \in StructureTypes} \cup {Direct(ConstructionDataOf(id)), Landmark}

StructureData(strategy, id) ==
    [construction_strategy |-> strategy, footprint |-> FootprintOf(id)]

\* Every manifest over the structure types, cyclic seedling references included.
Manifests ==
    {[id \in StructureTypes |-> StructureData(f[id], id)] :
        f \in {g \in [StructureTypes -> UNION {StrategyChoices(x) : x \in StructureTypes}] :
                 \A id \in StructureTypes : g[id] \in StrategyChoices(id)}}

NoLookup == [fn |-> "none", id |-> 0, result |-> None]

ManifestIdle ==
    /\ manifest = [id \in StructureTypes |-> StructureData(Landmark, id)]
    /\ lookup = NoLookup

\* A caller asks for the construction data of a structure type.
LookupConstructionData ==
    /\ lookup.result # Diverges
    /\ \E id \in StructureTypes :
          lookup' = [fn |-> "construction_data", id |-> id,
                     result |-> construction_data(manifest, id, 1)]
    /\ UNCHANGED <<manifest, logisticsVars, zoningVars>>

\* A caller asks for the footprint of a structure type.
LookupFootprint ==
    /\ lookup.result # Diverges
    /\ \E id \in StructureTypes :
          lookup' = [fn |-> "footprint", id |-> id,
                     result |-> footprint(manifest, id, 1)]
    /\ UNCHANGED <<manifest, logisticsVars, zoningVars>>

ManifestNext == LookupConstructionData \/ LookupFootprint

--------------------------------------------------------------------------
(* Structure selection (player_interaction/zoning.rs).                     *)

\* enum ZoningAction
ZoningAction == {"Pipette", "ClearSelection", "Zone"}

\* TilePos: structures stand on the first two tiles only.
Tiles == {1, 2, 3}
OrganismTypes == {"X", "Y"}

Entity(tile_pos, organism_type) == [tile_pos |-> tile_pos, organism_type |-> organism_type]

\* What structure_query may yield: nothing, one structure, structures on
\* different tiles, two entities on one tile.
EntityChoices ==
    {<<>>, <<Entity(1, "X")>>, <<Entity(1, "X"), Entity(2, "Y")>>,
     <<Entity(2, "Y"), Entity(2, "X")>>}

CursorChoices == {None} \cup {Some(tile) : tile \in Tiles}

\* ActionState::just_pressed
just_pressed(actions, action) == action \in actions

\* for (&tile_pos, organism_type) in structure_query.iter() { .. break; }
RECURSIVE StructureUnderCursor(_, _, _)
StructureUnderCursor(query, cursor, i) ==
    IF i > Len(query) THEN None
    ELSE IF Some(query[i].tile_pos) = cursor THEN Some(query[i].organism_type)
    ELSE StructureUnderCursor(query, cursor, i + 1)

\* Mutation of SetSelected: selecting takes priority over clearing.
SetSelectedPipetteFirst(actions, cursor, query, selected) ==
    IF just_pressed(actions, "Pipette") THEN StructureUnderCursor(query, cursor, 1)
    ELSE IF just_pressed(actions, "ClearSelection") THEN None
    ELSE selected

\* The body of set_selected_structure: the new value of maybe_structure.
SetSelected(actions, cursor, query, selected) ==
    IF just_pressed(actions, "ClearSelection") THEN None
    ELSE IF just_pressed(actions, "Pipette") THEN StructureUnderCursor(query, cursor, 1)
    ELSE selected

ZoningIdle ==
    /\ structure_entities = <<>>
    /\ zoning_actions = {}
    /\ cursor_pos = None
    /\ selected_structure = None
    /\ selected_before = None
    /\ frame_phase = "input"

\* A frame begins: the input manager and the cursor are updated.
UpdateInput ==
    /\ frame_phase = "input"
    /\ zoning_actions' \in SUBSET ZoningAction
    /\ cursor_pos' \in CursorChoices
    /\ selected_before' = selected_structure
    /\ frame_phase' = "select"
    /\ UNCHANGED <<structure_entities, selected_structure, logisticsVars, manifestVars>>

set_selected_structure ==
    /\ frame_phase = "select"
    /\ selected_structure' =
          SetSelected(zoning_actions, cursor_pos, structure_entities, selected_structure)
    /\ frame_phase' = "input"
    /\ UNCHANGED <<structure_entities, zoning_actions, cursor_pos, selected_before,
                   logisticsVars, manifestVars>>

ZoningNext == UpdateInput \/ set_selected_structure

--------------------------------------------------------------------------
(* Specifications.                                                         *)

\* A fixed small world, for the specifications that are not about logistics.
LogisticsIdle ==
    /\ terrain = TerrainOver(Cells, {})
    /\ structure = [s \in StructIds |->
          [kind |-> StructureKindOf(s), markers |-> MarkersOf(StructureKindOf(s)),
           pos |-> s, facing |-> 1, height |-> 1]]
    /\ waterDepth = [c \in Cells |-> 2]
    /\ litterCeiling = NoCeiling
    /\ input = [s \in StructIds |->
          IF StructureKindOf(s) = "Releaser" THEN SmallInput ELSE NoInventory]
    /\ output = [s \in StructIds |->
          IF StructureKindOf(s) = "Absorber"
          THEN ExactSlots(<<"A", "A">>, <<0, 0>>) ELSE NoInventory]
    /\ litter = [c \in Cells |-> EmptyPool]
    /\ emitter = [s \in StructIds |-> <<>>]
    /\ order = <<>>
    /\ crashed = FALSE
    /\ attempts = <<>>
    /\ turns = <<>>
    /\ lastEmit = [s \in StructIds |-> <<>>]
    /\ reEmitted = [s \in StructIds |-> FALSE]
    /\ total0 = [item \in Items |-> TotalOf(input, output, litter, item)]
    /\ processed = [sys \in Systems |-> {}]

Init == InitLogistics /\ ManifestIdle /\ ZoningIdle

Next == release_items \/ absorb_items \/ logistic_buildings_signals \/ EndTick

Spec == Init /\ [][Next]_vars

\* The worlds the three systems accept without the rest of the program
\* vouching for them: the markers are independent components, so structure 4
\* may carry both, with an InputInventory and an OutputInventory; and a
\* Litter pool may have a ceiling and refuse what goes beyond it.
OpenWorldInit ==
    /\ terrain = TerrainOver(Cells, {})
    /\ \E f1 \in Directions, h \in Heights, m4 \in {{}, {"ReleasesItems", "AbsorbsItems"}} :
          /\ structure = [s \in StructIds |->
                [kind |-> StructureKindOf(s),
                 markers |-> IF s = 4 THEN m4 ELSE MarkersOf(StructureKindOf(s)),
                 pos |-> s,
                 facing |-> IF s = 1 THEN f1 ELSE IF s = 4 THEN -1 ELSE 1,
                 height |-> IF s = 2 THEN h ELSE 1]]
          /\ \E i1 \in InputChoices :
                input = [s \in StructIds |->
                    IF s = 1 THEN i1
                    ELSE IF s = 3 \/ (s = 4 /\ m4 # {}) THEN SmallInput
                    ELSE NoInventory]
          /\ \E o2 \in OutputChoices :
                output = [s \in StructIds |->
                    IF s = 2 THEN o2
                    ELSE IF s = 4 /\ m4 # {} THEN ExactSlots(<<"A", "A">>, <<0, 0>>)
                    ELSE NoInventory]
    /\ \E p \in LitterChoices : litter = [c \in Cells |-> IF c = 2 THEN p ELSE EmptyPool]
    /\ waterDepth = [c \in Cells |-> 2]
    /\ litterCeiling \in {NoCeiling, Ceiling(MaxLitter)}
    /\ emitter = [s \in StructIds |-> <<>>]
    /\ order = <<>>
    /\ crashed = FALSE
    /\ attempts = <<>>
    /\ turns = <<>>
    /\ lastEmit = [s \in StructIds |-> <<>>]
    /\ reEmitted = [s \in StructIds |-> FALSE]
    /\ total0 = [item \in Items |-> TotalOf(input, output, litter, item)]
    /\ processed = [sys \in Systems |-> {}]
    /\ ManifestIdle /\ ZoningIdle

OpenWorldSpec == OpenWorldInit /\ [][Next]_vars

\* Manifest lookups, over every manifest.
ManifestInit == LogisticsIdle /\ manifest \in Manifests /\ lookup = NoLookup /\ ZoningIdle

ManifestSpec == ManifestInit /\ [][ManifestNext]_vars

\* Structure selection, frame after frame.
ZoningInit ==
    /\ LogisticsIdle
    /\ ManifestIdle
    /\ structure_entities \in EntityChoices
    /\ zoning_actions = {}
    /\ cursor_pos = None
    /\ selected_structure = None
    /\ selected_before = None
    /\ frame_phase = "input"

ZoningSpec == ZoningInit /\ [][ZoningNext]_vars

--------------------------------------------------------------------------
(* Helpers of the properties.                                              *)

Last(seq) == seq[Len(seq)]

AfterSystem(sys) == order # <<>> /\ Last(order) = sys

\* Units of all items in a litter pool.
PoolUnits(pool) == SumOver(pool, Items)

\* Free room over all slots of an inventory.
FreeRoom(slots) == SumOver([i \in DOMAIN slots |-> slots[i].cap - slots[i].count],
                           DOMAIN slots)

\* The attempts of the last system run made for structure s in a pass.
AttemptsOf(s, pass) ==
    SelectSeq(attempts, LAMBDA e : e.s = s /\ e.pass = pass)

\* The units moved by the successful attempts among a sequence of attempts.
RECURSIVE MovedUnits(_)
MovedUnits(seq) ==
    IF seq = <<>> THEN 0
    ELSE (IF Head(seq).ok THEN Head(seq).ic.count ELSE 0) + MovedUnits(Tail(seq))

\* What a successful transfer of ic moves, per item.
MovedOf(ic, item) == IF ic.item = item THEN ic.count ELSE 0

AbsorbTurns == {i \in DOMAIN turns : turns[i].sys = "absorb"}

\* What a turn on pool and slots leaves when only the ground pass runs, as
\* for an absorber that does not reach above the water.
GroundPassOnly(t) ==
    AbsorbPass([slots |-> clear_empty_slots(t.invBefore), pool |-> t.poolBefore,
                panicked |-> FALSE, attempts |-> <<>>],
               LitterIter(t.poolBefore), 1, t.s, "ground")

--------------------------------------------------------------------------
\* C1: Transfer conservation. For every item, the quantity summed over all
\* InputInventories, OutputInventories and Litter pools stays what it was at
\* construction; and in every successful transfer of the last Release or
\* Absorb run, what left the source is exactly what arrived at the
\* destination: the ItemCount attempted.
TransferConservation ==
    /\ \A item \in Items : TotalOf(input, output, litter, item) = total0[item]
    /\ \A i \in DOMAIN attempts :
          LET e == attempts[i]
          IN  e.ok => \A item \in Items :
                IF e.sys = "release"
                THEN /\ Held(e.srcBefore.slots, item) - Held(e.srcAfter.slots, item)
                            = MovedOf(e.ic, item)
                     /\ e.dstAfter[item] - e.dstBefore[item] = MovedOf(e.ic, item)
                ELSE /\ e.srcBefore[item] - e.srcAfter[item] = MovedOf(e.ic, item)
                     /\ Held(e.dstAfter, item) - Held(e.dstBefore, item)
                            = MovedOf(e.ic, item)

\* Items released earlier were absorbed: both kinds of transfer have moved
\* units, and a releaser has put items on a cell that had none.
TransferConservationWitness ==
    /\ AfterSystem("absorb")
    /\ \E i \in DOMAIN attempts : attempts[i].ok /\ attempts[i].ic.count > 0
    /\ \E i \in DOMAIN attempts : ~attempts[i].ok
    /\ \E item \in Items : total0[item] > litter[2][item] /\ litter[2][item] > 0
    /\ HasRun("release")
    /\ \E r \in Releasers :
          /\ ReleaseTarget(r) # 2 /\ HasLitter(ReleaseTarget(r))
          /\ litter[ReleaseTarget(r)] # EmptyPool

--------------------------------------------------------------------------
\* C2: An add that fails moves nothing. Every attempt of the last Release
\* run (into a Litter pool that refuses what goes beyond its ceiling) or
\* Absorb run (into an OutputInventory without room or with another filter)
\* whose all-or-nothing add failed left the source and the destination
\* exactly as they were, and the loop went on: every ItemCount of the
\* snapshot was attempted.
FailedTransferChangesNothing ==
    /\ \A i \in DOMAIN attempts :
          LET e == attempts[i]
          IN  ~e.ok => e.srcAfter = e.srcBefore /\ e.dstAfter = e.dstBefore
    /\ \A i \in DOMAIN turns :
          LET t == turns[i]
          IN  (~t.panicked /\ ~t.skipped) =>
                IF t.sys = "release"
                THEN Len(AttemptsOf(t.s, "release")) = Len(t.invBefore.slots)
                ELSE /\ Len(AttemptsOf(t.s, "ground")) = Len(t.groundSnap)
                     /\ Len(AttemptsOf(t.s, "floating")) = Len(t.floatSnap)

\* During Release an add failed although the Litter pool had room below its
\* ceiling for part of the ItemCount, nothing of it was moved, the releaser
\* still holds it, and its next ItemCount was transferred.
FailedTransferWitness ==
    \E i, j \in DOMAIN attempts :
        /\ attempts[i].sys = "release"
        /\ ~attempts[i].ok
        /\ litterCeiling # NoCeiling
        /\ attempts[i].dstBefore[attempts[i].ic.item] > 0
        /\ attempts[i].dstBefore[attempts[i].ic.item] < litterCeiling[1]
        /\ Held(input[attempts[i].s].slots, attempts[i].ic.item) = attempts[i].ic.count
        /\ i < j
        /\ attempts[j].ok /\ attempts[j].ic.count > 0
        /\ attempts[j].s = attempts[i].s

--------------------------------------------------------------------------
\* The signals derived from the inventory a structure has now.
DerivedSignals(s) == EmitFor(s, <<>>)

\* C3 (as claimed): at the end of every tick the three systems have run in
\* the order Release, Absorb, Signal Emission, and every Emitter equals the
\* signals derived from the inventory as the tick's transfers left it.
TickOrderAndFreshSignals ==
    Len(order) = Cardinality(Systems) =>
        /\ order = <<"release", "absorb", "signals">>
        /\ \A s \in StructIds : emitter[s] = DerivedSignals(s)

--------------------------------------------------------------------------
SlotsOf(s) ==
    IF s \in Releasers THEN input[s].slots
    ELSE IF s \in Absorbers THEN output[s] ELSE <<>>

\* The signal a slot stands for: Pull for a releaser, Push for an absorber.
SignalOf(s, i) ==
    IF s \in Releasers
    THEN Pull(IF input[s].matching = "Exact"
              THEN Single(input[s].slots[i].item) ELSE Tag(input[s].tag))
    ELSE Push(Single(output[s][i].item))

NonFullSlots(s) == {i \in DOMAIN SlotsOf(s) : SlotsOf(s)[i].count < SlotsOf(s)[i].cap}

CountSignals(s, type) == Cardinality({j \in DOMAIN emitter[s] : emitter[s][j][1] = type})

\* C4 (as claimed): right after Signal Emission, the Emitter holds exactly one
\* signal of the slot's kind for every non-full slot, none for a full slot,
\* and nothing else.
ExactlyOneSignalPerKind ==
    AfterSystem("signals") =>
        \A s \in StructIds :
            /\ \A i \in DOMAIN SlotsOf(s) :
                  CountSignals(s, SignalOf(s, i)) =
                      IF i \in NonFullSlots(s) THEN 1 ELSE 0
            /\ \A j \in DOMAIN emitter[s] :
                  \E i \in NonFullSlots(s) : emitter[s][j][1] = SignalOf(s, i)

\* C4 (amended): right after Signal Emission, the Emitter holds one signal per
\* non-full slot: for every kind, as many signals of that kind as there are
\* non-full slots of that kind, all at the fixed strength, and nothing else.
OneSignalPerNonFullSlot ==
    AfterSystem("signals") =>
        \A s \in StructIds :
            /\ Len(emitter[s]) = Cardinality(NonFullSlots(s))
            /\ \A i \in DOMAIN SlotsOf(s) :
                  CountSignals(s, SignalOf(s, i)) =
                      Cardinality({k \in NonFullSlots(s) : SignalOf(s, k) = SignalOf(s, i)})
            /\ \A j \in DOMAIN emitter[s] :
                  /\ \E i \in NonFullSlots(s) : emitter[s][j][1] = SignalOf(s, i)
                  /\ emitter[s][j][2] = LOGISTIC_SIGNAL_STRENGTH

\* Right after Signal Emission: a releaser and an absorber each with two
\* non-full slots of one kind, and a structure with a full slot.
OneSignalPerNonFullSlotWitness ==
    /\ AfterSystem("signals")
    /\ \E s \in Releasers : \E i, k \in NonFullSlots(s) :
          i # k /\ SignalOf(s, i) = SignalOf(s, k)
    /\ \E s \in Absorbers : \E i, k \in NonFullSlots(s) :
          i # k /\ SignalOf(s, i) = SignalOf(s, k)
    /\ \E s \in StructIds : NonFullSlots(s) # DOMAIN SlotsOf(s)

--------------------------------------------------------------------------
\* C5: Ground before floating. An absorber whose footprint height does not
\* exceed the water depth makes no floating attempt: what it absorbed is what
\* its ground pass moved, at most the units that lay in the pool and at most
\* its free room. A taller absorber absorbed what both passes moved.
GroundBeforeFloating ==
    \A i \in AbsorbTurns :
        LET t == turns[i]
            ground == MovedUnits(AttemptsOf(t.s, "ground"))
            floating == MovedUnits(AttemptsOf(t.s, "floating"))
            absorbed == PoolUnits(t.poolBefore) - PoolUnits(t.poolAfter)
            gained == FreeRoom(t.invBefore) - FreeRoom(t.invAfter)
        IN  (~t.skipped /\ ~t.panicked) =>
              /\ absorbed = gained
              /\ absorbed <= Min(PoolUnits(t.poolBefore), FreeRoom(t.invBefore))
              /\ IF structure[t.s].height <= waterDepth[t.cell]
                 THEN AttemptsOf(t.s, "floating") = <<>> /\ absorbed = ground
                 ELSE absorbed = ground + floating

\* An absorber level with the water absorbed something and left litter behind.
GroundBeforeFloatingWitness ==
    \E i \in AbsorbTurns :
        /\ ~turns[i].skipped
        /\ structure[turns[i].s].height <= waterDepth[turns[i].cell]
        /\ MovedUnits(AttemptsOf(turns[i].s, "ground")) > 0
        /\ PoolUnits(turns[i].poolAfter) > 0

--------------------------------------------------------------------------
Outcome(w) == <<w.input, w.output, w.litter>>

ReleaseThenAbsorb == RunAbsorb(RunRelease(World))

AbsorbThenRelease == RunRelease(RunAbsorb(World))

\* C6 (as claimed): from every world state, Release then Absorb leaves the
\* same inventories and litter as Absorb then Release.
ReleaseAbsorbCommute == Outcome(ReleaseThenAbsorb) = Outcome(AbsorbThenRelease)

FacedCell(r) == structure[r].pos + structure[r].facing

NoReleaserFacesAbsorber ==
    \A r \in Releasers, a \in Absorbers : FacedCell(r) # structure[a].pos

EveryFacedCellHasTerrain == \A r \in Releasers : HasLitter(FacedCell(r))

EveryAbsorberCellHasTerrain ==
    \A a \in Absorbers : HasLitter(structure[a].pos) /\ HasWaterDepth(structure[a].pos)

\* C6 (amended): Release then Absorb leaves the same inventories and litter
\* as Absorb then Release in every world state where no releaser faces the
\* cell of an absorber, every cell a releaser faces has a terrain entity with
\* Litter, and every cell an absorber stands on has one with Litter and
\* WaterDepth.
ReleaseAbsorbCommuteWhenApart ==
    (NoReleaserFacesAbsorber /\ EveryFacedCellHasTerrain /\ EveryAbsorberCellHasTerrain)
        => ReleaseAbsorbCommute

\* No releaser faces the absorber, and both Release and Absorb move something.
ReleaseAbsorbCommuteWitness ==
    /\ NoReleaserFacesAbsorber /\ EveryFacedCellHasTerrain /\ EveryAbsorberCellHasTerrain
    /\ ~crashed
    /\ Outcome(RunRelease(World)) # Outcome(World)
    /\ Outcome(RunAbsorb(World)) # Outcome(World)
    /\ Outcome(ReleaseThenAbsorb) # Outcome(RunRelease(World))

--------------------------------------------------------------------------
\* C7: Idempotent re-emission. A run of Signal Emission that finds every
\* inventory as the previous run left it leaves every Emitter as it was.
ReEmissionIdempotent ==
    [][\A s \in StructIds :
          (/\ ~HasRun("signals")
           /\ order' = Append(order, "signals")
           /\ lastEmit[s] = <<InventoryOf(s)>>) => emitter'[s] = emitter[s]]_vars

\* Signal Emission has just rebuilt a non-empty Emitter from an unchanged inventory.
ReEmissionWitness ==
    /\ AfterSystem("signals")
    /\ \E s \in Releasers : reEmitted[s] /\ Len(emitter[s]) > 1
    /\ \E s \in Absorbers : reEmitted[s] /\ emitter[s] # <<>>

--------------------------------------------------------------------------
\* The ItemCounts a sequence of attempts was made for.
AttemptedCounts(seq) == [j \in DOMAIN seq |-> seq[j].ic]

\* C8: Within an absorber's turn on a non-full inventory the ground pass runs
\* first, over a snapshot of the litter as the turn found it; the floating
\* pass runs exactly when the footprint height is strictly above the water
\* depth, after the ground pass, over a snapshot of what the ground pass left.
FloatingPassSeesLeftovers ==
    \A i \in AbsorbTurns :
        LET t == turns[i]
            ground == AttemptsOf(t.s, "ground")
            floating == AttemptsOf(t.s, "floating")
        IN  (~t.skipped /\ ~t.panicked) =>
              /\ t.groundSnap = LitterIter(t.poolBefore)
              /\ AttemptedCounts(ground) = t.groundSnap
              /\ ground # <<>> => /\ ground[1].srcBefore = t.poolBefore
                                  /\ ground[Len(ground)].srcAfter = t.poolAfterGround
              /\ t.floatRan = (structure[t.s].height > waterDepth[t.cell])
              /\ AttemptedCounts(floating) =
                    IF t.floatRan THEN LitterIter(t.poolAfterGround) ELSE <<>>
              /\ floating # <<>> => floating[1].srcBefore = t.poolAfterGround
              /\ \A a, b \in DOMAIN attempts :
                    (attempts[a].s = t.s /\ attempts[b].s = t.s
                     /\ attempts[a].pass = "ground" /\ attempts[b].pass = "floating")
                        => a < b

\* A tall absorber's ground pass took something and left something, which the
\* floating pass then tried.
FloatingPassWitness ==
    \E i \in AbsorbTurns :
        /\ turns[i].floatRan
        /\ MovedUnits(AttemptsOf(turns[i].s, "ground")) > 0
        /\ AttemptsOf(turns[i].s, "floating") # <<>>
        /\ turns[i].floatSnap # turns[i].groundSnap

--------------------------------------------------------------------------
SlotOk(slot) ==
    /\ 0 <= slot.count /\ slot.count <= slot.cap
    /\ slot.count > 0 => FilterAccepts(slot.filter, slot.item)

\* C9: Slot invariants. In every reachable state every slot of every
\* inventory holds no more than its capacity, and what it holds satisfies
\* its acceptance filter.
SlotInvariants ==
    \A s \in StructIds : \A i \in DOMAIN SlotsOf(s) : SlotOk(SlotsOf(s)[i])

\* An Absorb run has just filled a slot to its capacity and refused an item.
SlotInvariantsWitness ==
    /\ AfterSystem("absorb")
    /\ \E i \in DOMAIN attempts :
          /\ attempts[i].ok
          /\ \E k \in DOMAIN attempts[i].dstAfter :
                /\ SlotIsFull(attempts[i].dstAfter[k])
                /\ ~SlotIsFull(attempts[i].dstBefore[k])
    /\ \E i \in DOMAIN attempts : ~attempts[i].ok

--------------------------------------------------------------------------
\* C10: Absorb short-circuit. A turn that finds the OutputInventory full
\* after purging changes neither the litter of its cell nor any held
\* quantity, and attempts nothing, in either pass.
FullAbsorberDoesNothing ==
    \A i \in AbsorbTurns :
        LET t == turns[i]
        IN  is_full(clear_empty_slots(t.invBefore)) =>
              /\ t.poolAfter = t.poolBefore
              /\ litter[t.cell] = t.poolBefore
              /\ output[t.s] = t.invAfter
              /\ \A k \in DOMAIN t.invBefore :
                    t.invAfter[k].count = t.invBefore[k].count
              /\ AttemptsOf(t.s, "ground") = <<>>
              /\ AttemptsOf(t.s, "floating") = <<>>

\* A full absorber, tall enough for both passes, stood on litter it accepts.
FullAbsorberWitness ==
    \E i \in AbsorbTurns :
        /\ is_full(turns[i].invBefore)
        /\ structure[turns[i].s].height > waterDepth[turns[i].cell]
        /\ \E item \in Items :
              /\ turns[i].poolBefore[item] > 0
              /\ \E k \in DOMAIN turns[i].invBefore :
                    FilterAccepts(turns[i].invBefore[k].filter, item)

--------------------------------------------------------------------------
\* The indexes of the slots that are not full, in slot order.
NonFullSeq(slots) ==
    SelectSeq([i \in DOMAIN slots |-> i], LAMBDA i : slots[i].count # slots[i].cap)

\* C11: Signal kind and direction. Right after Signal Emission every signal of
\* a releaser is a Pull whose kind is Single(the slot's item id) under
\* exact-item matching and Tag(the inventory's tag) under tag-based matching;
\* every signal of an absorber is a Push of Single(the slot's item id), never
\* of a Tag; every signal has the fixed strength whatever the slot holds; a
\* structure that is neither has no signal from this system.
SignalKindAndDirection ==
    AfterSystem("signals") =>
        \A s \in StructIds :
            LET nonfull == NonFullSeq(SlotsOf(s))
            IN  /\ Len(emitter[s]) = Len(nonfull)
                /\ \A j \in DOMAIN emitter[s] :
                      LET type == emitter[s][j][1]
                          slot == SlotsOf(s)[nonfull[j]]
                      IN  /\ emitter[s][j][2] = LOGISTIC_SIGNAL_STRENGTH
                          /\ s \in Releasers =>
                                /\ type[1] = "Pull"
                                /\ input[s].matching = "Exact" =>
                                      type[2] = <<"Single", slot.item>>
                                /\ input[s].matching = "Tagged" =>
                                      type[2] = <<"Tag", input[s].tag>>
                          /\ s \in Absorbers =>
                                /\ type[1] = "Push"
                                /\ type[2] = <<"Single", slot.item>>

\* Right after Signal Emission: a tag-matching releaser pulls its tag, an
\* exact-matching releaser pulls its item, and an absorber pushes for two
\* slots that hold different quantities.
SignalKindAndDirectionWitness ==
    /\ AfterSystem("signals")
    /\ input[1].matching = "Tagged"
    /\ \E j \in DOMAIN emitter[1] : emitter[1][j][1] = <<"Pull", <<"Tag", "T">>>>
    /\ \E j \in DOMAIN emitter[3] : emitter[3][j][1] = <<"Pull", <<"Single", "A">>>>
    /\ Len(emitter[2]) = 2
    /\ output[2][1].count # output[2][2].count

--------------------------------------------------------------------------
BothMarkers == Releasers \cap Absorbers

OneMarker == (Releasers \cup Absorbers) \ BothMarkers

--------------------------------------------------------------------------
\* The pool an attempt found and the pool it left.
PoolBefore(e) == IF e.sys = "release" THEN e.dstBefore ELSE e.srcBefore

PoolAfter(e) == IF e.sys = "release" THEN e.dstAfter ELSE e.srcAfter

\* The positions in the log of the attempts made for structure s.
AttemptIndexes(s) == {a \in DOMAIN attempts : attempts[a].s = s}

\* In the last system run, the turns on one cell form a sequence of complete
\* turns: each turn found the pool as the previous turn on the cell left it,
\* the last one left it as it is now, the attempts of a turn are not mixed
\* with another structure's, each attempt found the pool as the previous
\* attempt of the turn left it, and per item the pool gained or lost exactly
\* what the structure's inventory lost or gained.
TurnsAreSequential ==
    /\ \A a, b, c \in DOMAIN attempts :
          (a < b /\ b < c /\ attempts[a].s = attempts[c].s)
              => attempts[b].s = attempts[a].s
    /\ \A i \in DOMAIN turns :
          LET t == turns[i]
              mine == AttemptsOf(t.s, "release") \o AttemptsOf(t.s, "ground")
                          \o AttemptsOf(t.s, "floating")
              later == {j \in DOMAIN turns : j > i /\ turns[j].cell = t.cell}
          IN  (~t.panicked /\ ~t.skipped) =>
                /\ IF later = {} THEN litter[t.cell] = t.poolAfter
                   ELSE \E j \in later :
                          /\ \A k \in later : j <= k
                          /\ turns[j].poolBefore = t.poolAfter
                /\ mine # <<>> =>
                      /\ PoolBefore(mine[1]) = t.poolBefore
                      /\ PoolAfter(mine[Len(mine)]) = t.poolAfter
                /\ \A a \in 1 .. Len(mine) - 1 :
                      PoolBefore(mine[a + 1]) = PoolAfter(mine[a])
                /\ \A item \in Items :
                      IF t.sys = "release"
                      THEN t.poolAfter[item] - t.poolBefore[item] =
                             Held(t.invBefore.slots, item) - Held(t.invAfter.slots, item)
                      ELSE t.poolBefore[item] - t.poolAfter[item] =
                             Held(t.invAfter, item) - Held(t.invBefore, item)

\* A system run starts where the state was: the first turn on a cell found
\* the pool that lay there before the run.
RunStartsFromLitter ==
    \A i \in DOMAIN turns' :
        ((turns' # turns \/ attempts' # attempts)
         /\ ~turns'[i].panicked
         /\ \A j \in DOMAIN turns' : j < i => turns'[j].cell # turns'[i].cell)
            => turns'[i].poolBefore = litter[turns'[i].cell]

\* C13: Linearized litter access. When several structures touch one Litter
\* pool in a tick, the pool sees a sequence of complete turns: no add/remove
\* pair of one structure is interleaved with another structure's access, and
\* nothing is duplicated or lost.
LinearizedLitterAccess == [](TurnsAreSequential) /\ [][RunStartsFromLitter]_vars

\* Both releasers face the absorber's cell, and each has just added to the
\* pool there, which already held litter.
LinearizedLitterAccessWitness ==
    /\ AfterSystem("release")
    /\ Len(turns) = 2
    /\ turns[1].cell = 2 /\ turns[2].cell = 2
    /\ PoolUnits(turns[1].poolBefore) > 0
    /\ PoolUnits(turns[1].poolAfter) > PoolUnits(turns[1].poolBefore)
    /\ PoolUnits(turns[2].poolAfter) > PoolUnits(turns[2].poolBefore)
    /\ Len(AttemptsOf(1, "release")) = 2

--------------------------------------------------------------------------
\* A turn that aborted the system: it panicked, it is the last turn of the
\* run, it attempted no transfer, and the structure holds what it held.
TurnAborted(i) ==
    LET t == turns[i]
    IN  /\ t.panicked /\ ~t.skipped
        /\ crashed
        /\ i = Len(turns)
        /\ AttemptIndexes(t.s) = {}
        /\ IF t.sys = "release"
           THEN t.invAfter = t.invBefore /\ input[t.s] = t.invBefore
           ELSE /\ \A k \in DOMAIN t.invBefore :
                      t.invAfter[k].count = t.invBefore[k].count
                /\ output[t.s] = t.invAfter

\* The terrain entity of the cell is missing, or lacks Litter or WaterDepth.
MissingOrIncomplete(cell) == ~HasLitter(cell) \/ ~HasWaterDepth(cell)

\* An absorber's turn that aborted the system between the passes: it is the
\* last turn of the run, it made no floating attempt, and it left in the
\* inventory and on the litter what the ground pass had moved.
TurnAbortedAfterGround(i) ==
    LET t == turns[i]
        g == GroundPassOnly(t)
    IN  /\ t.panicked /\ ~t.skipped
        /\ crashed
        /\ i = Len(turns)
        /\ AttemptsOf(t.s, "floating") = <<>>
        /\ AttemptedCounts(AttemptsOf(t.s, "ground")) = LitterIter(t.poolBefore)
        /\ t.invAfter = g.slots /\ output[t.s] = g.slots
        /\ t.poolAfter = g.pool /\ litter[t.cell] = g.pool

\* C14 (as claimed): every turn of a releaser facing a cell whose terrain
\* entity is missing or lacks Litter or WaterDepth, and every turn of an
\* absorber standing on one, aborts the system, without a transfer for that
\* structure.
MissingTerrainIsFatal ==
    \A i \in DOMAIN turns : MissingOrIncomplete(turns[i].cell) => TurnAborted(i)

\* C14 (amended): a turn of a releaser facing a cell whose terrain entity is
\* missing or has no Litter aborts the system without a transfer, and so
\* does a turn of an absorber standing on one whose OutputInventory is not
\* full. On a terrain entity with Litter and without WaterDepth a releaser's
\* turn does not abort, and a turn of an absorber whose OutputInventory is
\* not full aborts the system after the ground pass, whose transfers stay
\* made. An absorber whose OutputInventory is full is passed over before any
\* lookup, and the system goes on with the next structure.
MissingTerrainIsFatalUnlessFull ==
    \A i \in DOMAIN turns :
        LET t == turns[i]
            full == t.sys = "absorb" /\ is_full(clear_empty_slots(t.invBefore))
        IN  /\ ~HasLitter(t.cell) =>
                  IF full THEN t.skipped /\ ~t.panicked /\ ~crashed
                  ELSE TurnAborted(i)
            /\ (HasLitter(t.cell) /\ ~HasWaterDepth(t.cell)) =>
                  IF t.sys = "release" THEN ~t.panicked
                  ELSE IF full THEN t.skipped /\ ~t.panicked /\ ~crashed
                  ELSE TurnAbortedAfterGround(i)

\* Absorb has just aborted at an absorber that stands on a terrain entity
\* without WaterDepth, after its ground pass took an item from the litter
\* that Release had put there in the same tick.
MissingTerrainWitness ==
    /\ order = <<"release", "absorb">>
    /\ crashed
    /\ turns # <<>>
    /\ turns[Len(turns)].sys = "absorb"
    /\ HasLitter(turns[Len(turns)].cell) /\ ~HasWaterDepth(turns[Len(turns)].cell)
    /\ MovedUnits(AttemptsOf(turns[Len(turns)].s, "ground")) > 0
    /\ turns[Len(turns)].poolBefore # EmptyPool

--------------------------------------------------------------------------
\* A completed Release turn moved everything: per item the pool gained what
\* the releaser held, and every slot of the releaser is left with 0.
ReleaseMovesEverything ==
    \A i \in DOMAIN turns :
        LET t == turns[i]
        IN  (t.sys = "release" /\ ~t.panicked) =>
              /\ \A item \in Items :
                    t.poolAfter[item] = t.poolBefore[item] + Held(t.invBefore.slots, item)
              /\ \A k \in DOMAIN t.invAfter.slots : t.invAfter.slots[k].count = 0
              /\ input[t.s] = t.invAfter

\* The Pull signal a releaser's k-th slot calls for.
PullFor(s, k) ==
    <<Pull(IF input[s].matching = "Exact"
           THEN Single(input[s].slots[k].item) ELSE Tag(input[s].tag)),
      LOGISTIC_SIGNAL_STRENGTH>>

\* A run of Signal Emission gives a releaser whose slots all hold 0 one Pull
\* per slot, in slot order.
EmptiedReleaserPulls ==
    order' = Append(order, "signals") =>
        \A s \in Releasers :
            (\A k \in DOMAIN input[s].slots : input[s].slots[k].count = 0) =>
                emitter'[s] = [k \in DOMAIN input[s].slots |-> PullFor(s, k)]

\* C15: Release then re-advertise. After a Release turn the Litter of the
\* faced cell holds every unit the releaser held and every input slot holds
\* 0; and the next Signal Emission emits a Pull signal for each of those
\* slots, of kind Single(item) for an exact-filter inventory.
ReleaseThenReadvertise == [](ReleaseMovesEverything) /\ [][EmptiedReleaserPulls]_vars

\* Release took a part-filled slot of A from an exact-matching releaser to
\* the cell it faces, and Signal Emission, run after it in the same tick,
\* has given the releaser Pull(Single(A)).
ReleaseThenReadvertiseWitness ==
    /\ AfterSystem("signals")
    /\ 1 \in processed["release"]
    /\ input[1].matching = "Exact"
    /\ total0["A"] = MaxCap + 1
    /\ FacedCell(1) = 0
    /\ litter[FacedCell(1)]["A"] = 1
    /\ input[1].slots[1].count = 0
    /\ emitter[1][1] = <<Pull(Single("A")), LOGISTIC_SIGNAL_STRENGTH>>
    /\ Len(emitter[1]) = 2

--------------------------------------------------------------------------
\* No slot filter of the inventory accepts the item.
FilterExcluded(slots, item) ==
    \A k \in DOMAIN slots : ~FilterAccepts(slots[k].filter, item)

\* C16: Filter-excluded litter is untouched. An Absorb turn removes from the
\* Litter no item that no slot filter of the OutputInventory accepts, in
\* either pass: every attempt for such an item fails and its quantity in the
\* pool stays exactly what it was; while the first ItemCount of the litter,
\* if accepted and fitting, is absorbed whole.
FilterExcludedLitterUntouched ==
    \A i \in AbsorbTurns :
        LET t == turns[i]
        IN  (~t.skipped /\ ~t.panicked) =>
              /\ \A item \in Items :
                    FilterExcluded(t.invBefore, item) =>
                        /\ t.poolAfter[item] = t.poolBefore[item]
                        /\ litter[t.cell][item] = t.poolBefore[item]
                        /\ \A a \in AttemptIndexes(t.s) :
                              attempts[a].ic.item = item =>
                                  /\ ~attempts[a].ok
                                  /\ attempts[a].srcAfter = attempts[a].srcBefore
              /\ t.groundSnap # <<>> =>
                    LET ic == t.groundSnap[1]
                    IN  ic.count <= RemainingSpace(clear_empty_slots(t.invBefore), ic.item)
                          => /\ t.poolAfter[ic.item] = 0
                             /\ Held(t.invAfter, ic.item) =
                                    Held(t.invBefore, ic.item) + ic.count

\* An absorber with slots for A only, not taller than the water, stood on
\* litter of A and B: it has taken the A and left the B.
FilterExcludedWitness ==
    \E i \in AbsorbTurns :
        LET t == turns[i]
        IN  /\ FilterExcluded(t.invBefore, "B")
            /\ structure[t.s].height <= waterDepth[t.cell]
            /\ t.poolBefore["A"] > 0 /\ t.poolBefore["B"] > 0
            /\ t.poolAfter["A"] = 0
            /\ t.poolAfter["B"] = t.poolBefore["B"]
            /\ Held(t.invAfter, "A") = Held(t.invBefore, "A") + t.poolBefore["A"]

--------------------------------------------------------------------------
\* From the world as it is, the turn of any one releaser would change only
\* its own InputInventory and the litter of the cell one step along its
\* facing; the turn of any one absorber only its own OutputInventory and the
\* litter of its own cell.
TurnsAreLocal ==
    /\ \A s \in Releasers :
          LET after == ReleaseTurn(World, s)
          IN  /\ \A r \in StructIds \ {s} : after.input[r] = input[r]
              /\ after.output = output
              /\ \A c \in Cells \ {structure[s].pos + structure[s].facing} :
                    after.litter[c] = litter[c]
    /\ \A s \in Absorbers :
          LET after == AbsorbTurn(World, s)
          IN  /\ after.input = input
              /\ \A r \in StructIds \ {s} : after.output[r] = output[r]
              /\ \A c \in Cells \ {structure[s].pos} : after.litter[c] = litter[c]

\* A run of Release changes no OutputInventory, no Emitter and no litter but
\* that of the cells releasers face; a run of Absorb no InputInventory, no
\* Emitter and no litter but that of the cells absorbers stand on; a run of
\* Signal Emission no inventory and no litter.
SystemsAreLocal ==
    /\ order' = Append(order, "release") =>
          /\ output' = output /\ emitter' = emitter
          /\ \A s \in StructIds \ Releasers : input'[s] = input[s]
          /\ \A c \in Cells \ {FacedCell(r) : r \in Releasers} : litter'[c] = litter[c]
    /\ order' = Append(order, "absorb") =>
          /\ input' = input /\ emitter' = emitter
          /\ \A s \in StructIds \ Absorbers : output'[s] = output[s]
          /\ \A c \in Cells \ {structure[a].pos : a \in Absorbers} : litter'[c] = litter[c]
    /\ order' = Append(order, "signals") =>
          /\ input' = input /\ output' = output /\ litter' = litter
          /\ \A s \in StructIds \ (Releasers \cup Absorbers) : emitter'[s] = emitter[s]

\* C17: Locality of effects. A releaser's turn changes only its own
\* InputInventory and the Litter of the one cell at position + one step along
\* its facing; an absorber's turn only its own OutputInventory and the Litter
\* of its own cell; Signal Emission changes only Emitters.
LocalityOfEffects == [](TurnsAreLocal) /\ [][SystemsAreLocal]_vars

\* Release has just run: each releaser emptied itself onto a different cell,
\* beside an absorber that holds items and stands on litter.
LocalityOfEffectsWitness ==
    /\ AfterSystem("release")
    /\ Len(turns) = 2
    /\ turns[1].cell # turns[2].cell
    /\ \A i \in DOMAIN turns :
          PoolUnits(turns[i].poolAfter) > PoolUnits(turns[i].poolBefore)
    /\ 2 \notin {turns[1].cell, turns[2].cell}
    /\ PoolUnits(litter[2]) > 0
    /\ FreeRoom(output[2]) = 1

--------------------------------------------------------------------------
\* The sequences of structure types a chain of seedlings can be.
Paths == UNION {[1 .. n -> StructureTypes] : n \in 1 .. Cardinality(StructureTypes)}

\* c is the chain of id: it starts at id, each structure but the last is
\* built from the next as its seedling, and the last is built otherwise.
IsChain(m, c, id) ==
    /\ c[1] = id
    /\ \A k \in 1 .. Len(c) - 1 : m[c[k]].construction_strategy = <<"Seedling", c[k + 1]>>
    /\ m[c[Len(c)]].construction_strategy[1] # "Seedling"

\* C18: Manifest lookup through seedlings. For a structure id whose chain of
\* seedlings ends, construction_data(id) is Some(the ConstructionData of the
\* structure the chain ends at) if that one is built with Direct and None if
\* it is a Landmark, and footprint(id) is the footprint stored for the
\* structure the chain ends at, not for the structure asked for.
ManifestLookupThroughSeedlings ==
    lookup.fn # "none" =>
        \A c \in Paths :
            IsChain(manifest, c, lookup.id) =>
                LET end == c[Len(c)]
                    strategy == manifest[end].construction_strategy
                IN  IF lookup.fn = "construction_data"
                    THEN lookup.result =
                            IF strategy[1] = "Direct"
                            THEN <<"Some", <<"data", end>>>> ELSE <<"None">>
                    ELSE lookup.result = <<"footprint", end>>

\* The footprint of a structure grown from a seedling of a seedling that is
\* built directly was asked for.
ManifestLookupWitness ==
    /\ lookup.fn = "footprint"
    /\ lookup.id = 1
    /\ manifest[1].construction_strategy = Seedling(2)
    /\ manifest[2].construction_strategy = Seedling(3)
    /\ manifest[3].construction_strategy[1] = "Direct"
    /\ lookup.result = manifest[3].footprint
    /\ lookup.result # manifest[1].footprint

--------------------------------------------------------------------------
\* The entities of structure_query that stand on the tile under the cursor.
UnderCursor ==
    {i \in DOMAIN structure_entities :
        <<"Some", structure_entities[i].tile_pos>> = cursor_pos}

\* C19: Structure selection state machine. After a frame in which
\* ClearSelection was just pressed nothing is selected, whether or not
\* Pipette was pressed too; after a frame in which only Pipette was just
\* pressed the selection is the structure on the tile under the cursor (the
\* first the query yields there), or nothing if there is no structure there
\* or no cursor tile; after a frame with neither the selection is what it
\* was when the frame began.
SelectionStateMachine ==
    frame_phase = "input" =>
        IF "ClearSelection" \in zoning_actions
        THEN selected_structure = <<"None">>
        ELSE IF "Pipette" \in zoning_actions
        THEN IF UnderCursor = {}
             THEN selected_structure = <<"None">>
             ELSE \E i \in UnderCursor :
                    /\ \A j \in UnderCursor : i <= j
                    /\ selected_structure =
                          <<"Some", structure_entities[i].organism_type>>
        ELSE selected_structure = selected_before

\* A frame in which ClearSelection and Pipette were both just pressed, with
\* the cursor on a structure and another structure selected, has ended with
\* nothing selected.
SelectionStateMachineWitness ==
    /\ frame_phase = "input"
    /\ {"ClearSelection", "Pipette"} \subseteq zoning_actions
    /\ UnderCursor # {}
    /\ selected_before = <<"Some", "Y">>
    /\ \E i \in UnderCursor : structure_entities[i].organism_type = "X"
    /\ selected_structure = <<"None">>

--------------------------------------------------------------------------
\* C20: The removal that follows a successful add never fails. In every
\* reachable state, every attempt of the last run whose add was accepted
\* found the ItemCount present in the source and took exactly it out; no
\* turn panicked but at a lookup of the terrain entity or its Litter, before
\* any attempt, or at an absorber's lookup of the WaterDepth, between the
\* passes; and the program has crashed only in such a turn.
RemovalNeverFails ==
    /\ \A a \in DOMAIN attempts :
          LET e == attempts[a]
          IN  e.ok =>
                IF e.sys = "release"
                THEN /\ Held(e.srcBefore.slots, e.ic.item) >= e.ic.count
                     /\ Held(e.srcAfter.slots, e.ic.item) =
                            Held(e.srcBefore.slots, e.ic.item) - e.ic.count
                ELSE /\ e.srcBefore[e.ic.item] >= e.ic.count
                     /\ e.srcAfter[e.ic.item] = e.srcBefore[e.ic.item] - e.ic.count
    /\ \A i \in DOMAIN turns :
          turns[i].panicked =>
              \/ UnwrapPanics(turns[i].cell) /\ AttemptIndexes(turns[i].s) = {}
              \/ /\ turns[i].sys = "absorb"
                 /\ ~UnwrapPanics(turns[i].cell)
                 /\ WaterDepthUnwrapPanics(turns[i].cell)
    /\ crashed => turns # <<>> /\ turns[Len(turns)].panicked

\* A releaser with two slots holding the same item had both ItemCounts
\* accepted and consumed, the first of them out of both slots.
RemovalNeverFailsWitness ==
    /\ ~crashed
    /\ \E a, b \in DOMAIN attempts :
          /\ a < b
          /\ attempts[a].sys = "release" /\ attempts[a].s = attempts[b].s
          /\ attempts[a].ok /\ attempts[b].ok
          /\ attempts[a].ic.item = attempts[b].ic.item
          /\ attempts[a].ic.count = MaxCap /\ attempts[b].ic.count > 0
          /\ attempts[a].srcAfter.slots[2].count = 0
          /\ attempts[a].srcAfter.slots[1].count = MaxCap - 1

--------------------------------------------------------------------------
\* C21: The outcome of an Absorb turn does not depend on the height. In every
\* reachable state, every absorber's turn that reached the litter left the
\* OutputInventory and the Litter that the ground pass alone leaves, whether
\* or not the floating pass ran; and when it ran, every ItemCount it tried
\* was rejected and changed neither the inventory nor the litter.
AbsorbIndependentOfHeight ==
    \A i \in AbsorbTurns :
        LET t == turns[i]
            floating == AttemptsOf(t.s, "floating")
            g == GroundPassOnly(t)
        IN  (~t.skipped /\ ~UnwrapPanics(t.cell)) =>
              /\ t.invAfter = g.slots
              /\ t.poolAfter = g.pool
              /\ t.poolAfter = t.poolAfterGround
              /\ \A j \in DOMAIN floating :
                    /\ ~floating[j].ok
                    /\ floating[j].srcAfter = floating[j].srcBefore
                    /\ floating[j].dstAfter = floating[j].dstBefore
                    /\ floating[j].dstBefore = t.invAfter
                    /\ floating[j].srcBefore = t.poolAfter

\* An absorber above the water took an item in the ground pass and was left
\* with an ItemCount its slots accept but have no room for; the floating
\* pass tried that ItemCount again.
AbsorbIndependentOfHeightWitness ==
    \E i \in AbsorbTurns :
        LET t == turns[i]
            floating == AttemptsOf(t.s, "floating")
        IN  /\ t.floatRan
            /\ MovedUnits(AttemptsOf(t.s, "ground")) > 0
            /\ \E j \in DOMAIN floating :
                  /\ \E k \in DOMAIN t.invAfter :
                        FilterAccepts(t.invAfter[k].filter, floating[j].ic.item)
                  /\ floating[j].ic.count > RemainingSpace(t.invAfter, floating[j].ic.item)

--------------------------------------------------------------------------
\* C22 (as claimed): Termination of manifest lookups. For every manifest and
\* every structure id, construction_data(id) and footprint(id) return, also
\* when the Seedling references form a cycle: no lookup made is left without
\* a result.
ManifestLookupsTerminate == lookup.result # Diverges

====
